---- MODULE Spec2Model ----
(***************************************************************************)
(* ClearTrack backend (src/backend/main.py): holdings CRUD, portfolio      *)
(* valuation, the daily snapshot job and its manual trigger, modelled as a *)
(* state machine over the three tables of the database.                    *)
(*                                                                         *)
(* Floats are modelled as naturals (all sample inputs are integral, so the *)
(* products and sums of the code are exact); the one division of the code  *)
(* (profit_loss_percent) is kept as an exact fraction.  Time is counted in *)
(* hours since the first start of the process.                             *)
(***************************************************************************)
EXTENDS Integers, Sequences, FiniteSets, TLC

VARIABLES
    holdings,   \* table "holdings": set of rows [id, ticker, shares, purchase_price, created_at]
    snapshots,  \* table "price_snapshots": rows in id order, row id = position
    history,    \* table "portfolio_history": rows in id order, row id = position
    job,        \* the running update_price_snapshots coroutine (its locals and session)
    now,        \* datetime.utcnow(), in hours
    ops,        \* how many of the bounded steps (writes, runs, clock advances) were taken
    origin,     \* origin[i]: the trigger of the run that wrote history[i]
    call,       \* the request handled by the last step and what the price provider answered
    resp        \* the HTTP response produced by the last step (NoResp when it produced none)

vars == <<holdings, snapshots, history, job, now, ops, origin, call, resp>>

----------------------------------------------------------------------------
\* Bounds of the model

MaxOps == 3     \* accepted writes, snapshot runs and clock advances in one behaviour

\* Program constants
ThirtyDays == 30    \* timedelta(days=30)
HoursPerDay == 24   \* strftime("%Y-%m-%d") keeps the day of a datetime
NULL == 0           \* holding_id of a snapshot whose parent row was deleted

\* Sample inputs
CreateBodies ==
    { [ticker |-> "AAA", shares |-> 10, purchase_price |-> 5],
      [ticker |-> "BBB", shares |-> 1,  purchase_price |-> 0] }
Prices == {0, 8}                 \* what get_current_price may return
PathTickers == {"aaa", "AAA"}
\* half a day, thirty days, thirty days and a half
TimeSteps == {HoursPerDay \div 2, ThirtyDays * HoursPerDay,
              ThirtyDays * HoursPerDay + HoursPerDay \div 2}
Triggers == {"scheduled", "manual"}

NoResp == [op |-> "none"]
NoCall == [op |-> "none"]
IdleJob == [pc |-> "idle"]

----------------------------------------------------------------------------
\* Helpers

Ids(hs) == {h.id : h \in hs}

Max(S) == CHOOSE x \in S : \A y \in S : y <= x

\* INTEGER PRIMARY KEY on the default sqlite database: max(rowid) + 1
NextHoldingId == IF holdings = {} THEN 1 ELSE Max(Ids(holdings)) + 1

\* db.query(Holding).all(): the rows in id order
RECURSIVE AllHoldings(_)
AllHoldings(hs) ==
    IF hs = {} THEN <<>>
    ELSE LET h == CHOOSE x \in hs : \A y \in hs : x.id <= y.id
         IN  <<h>> \o AllHoldings(hs \ {h})

\* str.upper() on the sample tickers
Upper(t) == IF t = "aaa" THEN "AAA" ELSE t

\* entry.date.strftime("%Y-%m-%d"): the day of a datetime
DateStr(t) == t \div HoursPerDay

RECURSIVE Gcd(_, _)
Gcd(a, b) == IF b = 0 THEN a ELSE Gcd(b, a % b)

Abs(x) == IF x < 0 THEN 0 - x ELSE x

\* the exact value n / d, d > 0, in lowest terms
Frac(n, d) == LET g == Gcd(Abs(n), d) IN [num |-> n \div g, den |-> d \div g]

----------------------------------------------------------------------------
\* Valuation (the arithmetic shared by the job and the endpoints)

\* mutant: the share count is left out of the value
HoldingValueNoShares(shares, current_price) == current_price

\* current_price * holding.shares
HoldingValue(shares, current_price) == current_price * shares

\* holding.purchase_price * holding.shares
HoldingCost(shares, purchase_price) == purchase_price * shares

\* mutant: the ratio is not scaled to a percentage
ProfitLossRatio(profit_loss, total_invested) ==
    IF total_invested > 0 THEN Frac(profit_loss, total_invested)
    ELSE Frac(0, 1)

\* (profit_loss / total_invested * 100) if total_invested > 0 else 0
ProfitLossPercent(profit_loss, total_invested) ==
    IF total_invested > 0 THEN Frac(profit_loss * 100, total_invested)
    ELSE Frac(0, 1)

\* mutant: only a negative price counts as a failed lookup
IsNegativePrice(price) == price < 0

\* the "if current_price == 0" / "if price == 0" test of the two validating endpoints
IsZeroPrice(price) == price = 0

----------------------------------------------------------------------------
\* Session semantics of SessionLocal(autocommit=False, autoflush=False)

\* db.commit(): the pending rows are inserted, in the order they were added
Committed(table, pending) == table \o pending

\* mutant: closing the session writes its pending rows
Flushed(table, pending) == table \o pending

\* db.close() without a commit: the pending rows are dropped with the session
Closed(table, pending) == table

\* mutant: a day that has a row gets no second one
InsertHistoryOncePerDay(table, row) ==
    IF \E i \in DOMAIN table :
         table[i].date \div HoursPerDay = row.date \div HoursPerDay
    THEN table ELSE Append(table, row)

\* db.add(history); db.commit(): one more row, whatever the table holds
InsertHistory(table, row) == Append(table, row)

----------------------------------------------------------------------------
\* update_price_snapshots, one action per step.  The coroutine has no await,
\* so the event loop runs one snapshot run at a time; the synchronous
\* endpoints run on worker threads and interleave with its steps.

\* body of the response of trigger_snapshot
TriggerResponse == [op |-> "trigger_snapshot", status |-> 200,
                    body |-> "Snapshot completed"]

RunResponse(trigger) == IF trigger = "manual" THEN TriggerResponse ELSE NoResp

JobStart(trigger) ==
    /\ job.pc = "idle"
    /\ ops < MaxOps
    /\ ops' = ops + 1
    /\ job' = [pc |-> "loop", trigger |-> trigger,
               loaded |-> AllHoldings(holdings), i |-> 1, pending |-> <<>>,
               portfolio_value |-> 0, portfolio_invested |-> 0]
    /\ call' = NoCall
    /\ resp' = NoResp
    /\ UNCHANGED <<holdings, snapshots, history, now, origin>>

JobIterate ==
    /\ job.pc = "loop"
    /\ job.i <= Len(job.loaded)
    /\ \E current_price \in Prices :
         LET holding == job.loaded[job.i]
             snapshot == [holding_id |-> holding.id, price |-> current_price,
                          date |-> now]
         IN  job' = [job EXCEPT
                 !.i = @ + 1,
                 !.pending = Append(@, snapshot),
                 !.portfolio_value = @ + HoldingValue(holding.shares, current_price),
                 !.portfolio_invested =
                     @ + HoldingCost(holding.shares, holding.purchase_price)]
    /\ call' = NoCall
    /\ resp' = NoResp
    /\ UNCHANGED <<holdings, snapshots, history, now, ops, origin>>

JobCommit ==
    /\ job.pc = "loop"
    /\ job.i > Len(job.loaded)
    /\ LET row == [date |-> now,
                   total_value |-> job.portfolio_value,
                   total_invested |-> job.portfolio_invested,
                   profit_loss |-> job.portfolio_value - job.portfolio_invested]
       IN  /\ snapshots' = Committed(snapshots, job.pending)
           /\ history' = InsertHistory(history, row)
    /\ origin' = Append(origin, job.trigger)
    /\ call' = [op |-> "snapshot_run", trigger |-> job.trigger, failed |-> FALSE,
                added |-> Len(job.pending)]
    /\ resp' = RunResponse(job.trigger)
    /\ job' = IdleJob
    /\ UNCHANGED <<holdings, now, ops>>

\* an exception inside the try block (a failed query, lookup arithmetic or
\* commit): printed, then the session is closed
JobFail ==
    /\ job.pc = "loop"
    /\ snapshots' = Closed(snapshots, job.pending)
    /\ history' = Closed(history, <<>>)
    /\ call' = [op |-> "snapshot_run", trigger |-> job.trigger, failed |-> TRUE,
                added |-> Len(job.pending)]
    /\ resp' = RunResponse(job.trigger)
    /\ job' = IdleJob
    /\ UNCHANGED <<holdings, now, ops, origin>>

----------------------------------------------------------------------------
\* GET /

ReadRoot ==
    /\ resp' = [op |-> "read_root", status |-> 200,
                body |-> "ClearTrack API is running"]
    /\ call' = [op |-> "read_root"]
    /\ UNCHANGED <<holdings, snapshots, history, job, now, ops, origin>>

----------------------------------------------------------------------------
\* GET /api/holdings

HoldingResponse(holding, current_price) ==
    [id |-> holding.id, ticker |-> holding.ticker, shares |-> holding.shares,
     purchase_price |-> holding.purchase_price,
     current_price |-> current_price,
     current_value |-> HoldingValue(holding.shares, current_price),
     total_cost |-> HoldingCost(holding.shares, holding.purchase_price),
     created_at |-> holding.created_at]

GetHoldings ==
    LET rows == AllHoldings(holdings)
    IN  \E prices \in [1..Len(rows) -> Prices] :
          /\ resp' = [op |-> "get_holdings", status |-> 200,
                      body |-> [i \in 1..Len(rows) |->
                                  HoldingResponse(rows[i], prices[i])]]
          /\ call' = [op |-> "get_holdings", prices |-> prices]
          /\ UNCHANGED <<holdings, snapshots, history, job, now, ops, origin>>

----------------------------------------------------------------------------
\* POST /api/holdings

\* Holding(**holding.dict()) once inserted: id and created_at are set by the insert
NewHolding(body, id, utcnow) ==
    [id |-> id, ticker |-> body.ticker, shares |-> body.shares,
     purchase_price |-> body.purchase_price, created_at |-> utcnow]

\* db.add(db_holding); db.commit(); db.refresh(db_holding)
InsertHolding(hs, db_holding) == hs \cup {db_holding}

CreateHolding ==
    \E body \in CreateBodies, current_price \in Prices :
      /\ call' = [op |-> "create_holding", body |-> body, price |-> current_price]
      /\ IF IsZeroPrice(current_price)
         THEN /\ resp' = [op |-> "create_holding", status |-> 400,
                          body |-> "Invalid ticker symbol"]
              /\ UNCHANGED <<holdings, ops>>
         ELSE /\ ops < MaxOps
              /\ ops' = ops + 1
              /\ LET db_holding == NewHolding(body, NextHoldingId, now)
                 IN  /\ holdings' = InsertHolding(holdings, db_holding)
                     /\ resp' = [op |-> "create_holding", status |-> 200,
                                 body |-> HoldingResponse(db_holding, current_price)]
      /\ UNCHANGED <<snapshots, history, job, now, origin>>

----------------------------------------------------------------------------
\* DELETE /api/holdings/{holding_id}

\* mutant: the filter compares with <= and takes the older rows along
DeleteRowsUpTo(hs, holding_id) == {h \in hs : h.id > holding_id}

\* db.delete(holding): the row leaves the table
DeleteRow(hs, holding_id) == {h \in hs : h.id # holding_id}

\* the flush of db.delete(holding): relationship("PriceSnapshot") declares no
\* delete cascade, so the stored children are kept and de-associated
Orphaned(snaps, holding_id) ==
    [i \in DOMAIN snaps |->
        IF snaps[i].holding_id = holding_id
        THEN [snaps[i] EXCEPT !.holding_id = NULL]
        ELSE snaps[i]]

DeleteHolding ==
    \E holding_id \in 1..NextHoldingId :
      /\ call' = [op |-> "delete_holding", holding_id |-> holding_id]
      /\ IF holding_id \notin Ids(holdings)
         THEN /\ resp' = [op |-> "delete_holding", status |-> 404,
                          body |-> "Holding not found"]
              /\ UNCHANGED <<holdings, snapshots, ops>>
         ELSE /\ ops < MaxOps
              /\ ops' = ops + 1
              /\ holdings' = DeleteRow(holdings, holding_id)
              /\ snapshots' = Orphaned(snapshots, holding_id)
              /\ resp' = [op |-> "delete_holding", status |-> 200,
                          body |-> "Holding deleted"]
      /\ UNCHANGED <<history, job, now, origin>>

----------------------------------------------------------------------------
\* GET /api/portfolio/summary

\* the for loop of get_portfolio_summary, from row i on
RECURSIVE SummaryLoop(_, _, _, _, _)
SummaryLoop(rows, prices, i, total_invested, current_value) ==
    IF i > Len(rows) THEN [total_invested |-> total_invested,
                           current_value |-> current_value]
    ELSE SummaryLoop(rows, prices, i + 1,
             total_invested + HoldingCost(rows[i].shares, rows[i].purchase_price),
             current_value + HoldingValue(rows[i].shares, prices[i]))

PortfolioSummary(rows, prices) ==
    LET t == SummaryLoop(rows, prices, 1, 0, 0)
        profit_loss == t.current_value - t.total_invested
    IN  [total_invested |-> t.total_invested,
         current_value |-> t.current_value,
         holdings_count |-> Len(rows),
         profit_loss |-> profit_loss,
         profit_loss_percent |-> ProfitLossPercent(profit_loss, t.total_invested)]

GetPortfolioSummary ==
    LET rows == AllHoldings(holdings)
    IN  \E prices \in [1..Len(rows) -> Prices] :
          /\ resp' = [op |-> "get_portfolio_summary", status |-> 200,
                      body |-> PortfolioSummary(rows, prices)]
          /\ call' = [op |-> "get_portfolio_summary", prices |-> prices]
          /\ UNCHANGED <<holdings, snapshots, history, job, now, ops, origin>>

----------------------------------------------------------------------------
\* GET /api/portfolio/history

\* mutant: the comparison is strict
AfterThirtyDaysAgo(date, utcnow) == date > utcnow - ThirtyDays * HoursPerDay

\* PortfolioHistory.date >= datetime.utcnow() - timedelta(days=30)
InLastThirtyDays(date, utcnow) == date >= utcnow - ThirtyDays * HoursPerDay

\* .filter(...)
RECURSIVE Filter(_, _)
Filter(rows, utcnow) ==
    IF rows = <<>> THEN <<>>
    ELSE (IF InLastThirtyDays(Head(rows).date, utcnow) THEN <<Head(rows)>> ELSE <<>>)
         \o Filter(Tail(rows), utcnow)

\* .order_by(PortfolioHistory.date): ascending, rows of equal date in id order
RECURSIVE OrderByDate(_)
OrderByDate(rows) ==
    IF rows = <<>> THEN <<>>
    ELSE LET k == CHOOSE i \in DOMAIN rows :
                    /\ \A j \in DOMAIN rows : rows[i].date <= rows[j].date
                    /\ \A j \in 1..(i - 1) : rows[j].date # rows[i].date
             rest == [j \in 1..(Len(rows) - 1) |->
                        IF j < k THEN rows[j] ELSE rows[j + 1]]
         IN  <<rows[k]>> \o OrderByDate(rest)

PortfolioHistoryResponse(entry) ==
    [date |-> DateStr(entry.date), profit_loss |-> entry.profit_loss]

GetPortfolioHistory ==
    LET rows == OrderByDate(Filter(history, now))
    IN  /\ resp' = [op |-> "get_portfolio_history", status |-> 200,
                    body |-> [i \in 1..Len(rows) |->
                                PortfolioHistoryResponse(rows[i])]]
        /\ call' = [op |-> "get_portfolio_history"]
        /\ UNCHANGED <<holdings, snapshots, history, job, now, ops, origin>>

----------------------------------------------------------------------------
\* GET /api/prices/current/{ticker}

GetCurrentStockPrice ==
    \E ticker \in PathTickers, price \in Prices :
      /\ call' = [op |-> "get_current_stock_price", ticker |-> ticker,
                  lookup |-> Upper(ticker), price |-> price]
      /\ resp' = IF IsZeroPrice(price)
                 THEN [op |-> "get_current_stock_price", status |-> 404,
                       body |-> "Ticker not found"]
                 ELSE [op |-> "get_current_stock_price", status |-> 200,
                       body |-> [ticker |-> Upper(ticker), price |-> price]]
      /\ UNCHANGED <<holdings, snapshots, history, job, now, ops, origin>>

----------------------------------------------------------------------------
\* The clock

Tick ==
    /\ ops < MaxOps
    /\ ops' = ops + 1
    /\ \E d \in TimeSteps : now' = now + d
    /\ call' = NoCall
    /\ resp' = NoResp
    /\ UNCHANGED <<holdings, snapshots, history, job, origin>>

----------------------------------------------------------------------------
Init ==
    /\ holdings = {}
    /\ snapshots = <<>>
    /\ history = <<>>
    /\ job = IdleJob
    /\ now = 0
    /\ ops = 0
    /\ origin = <<>>
    /\ call = NoCall
    /\ resp = NoResp

Next ==
    \/ \E trigger \in Triggers : JobStart(trigger)
    \/ JobIterate
    \/ JobCommit
    \/ JobFail
    \/ ReadRoot
    \/ GetHoldings
    \/ CreateHolding
    \/ DeleteHolding
    \/ GetPortfolioSummary
    \/ GetPortfolioHistory
    \/ GetCurrentStockPrice
    \/ Tick

Spec == Init /\ [][Next]_vars

----------------------------------------------------------------------------
\* What the properties below are stated with

RECURSIVE Sigma(_)
Sigma(xs) == IF xs = <<>> THEN 0 ELSE Head(xs) + Sigma(Tail(xs))

\* the step just taken ended a snapshot run, with or without an exception
RunCompleted == call'.op = "snapshot_run" /\ ~call'.failed
RunFailed == call'.op = "snapshot_run" /\ call'.failed

\* the rows a step appended to a table
Added(old, new) == SubSeq(new, Len(old) + 1, Len(new))
Extends(old, new) == Len(new) >= Len(old) /\ SubSeq(new, 1, Len(old)) = old

RowsOfDay(table, day) == Cardinality({i \in DOMAIN table : table[i].date \div HoursPerDay = day})

----------------------------------------------------------------------------
\* C1: a snapshot run that completes without an exception adds exactly one
\* PriceSnapshot row per holding it loaded at its start and exactly one
\* PortfolioHistory row; that row's total_value is the sum of price * shares
\* over the loaded holdings (price being the one stored in the holding's new
\* snapshot row), its total_invested the sum of purchase_price * shares, its
\* profit_loss their difference; with nothing loaded the three are 0 and no
\* PriceSnapshot row is added.
C1_Step ==
    RunCompleted =>
      LET loaded == job.loaded
          n == Len(loaded)
          snaps == Added(snapshots, snapshots')
          rows == Added(history, history')
          priceOf(k) == snaps[CHOOSE i \in DOMAIN snaps :
                                 snaps[i].holding_id = loaded[k].id].price
      IN  /\ Extends(snapshots, snapshots') /\ Extends(history, history')
          /\ Len(snaps) = n
          /\ \A k \in 1..n :
               Cardinality({i \in DOMAIN snaps :
                              snaps[i].holding_id = loaded[k].id}) = 1
          /\ Len(rows) = 1
          /\ rows[1].total_value =
               Sigma([k \in 1..n |-> priceOf(k) * loaded[k].shares])
          /\ rows[1].total_invested =
               Sigma([k \in 1..n |-> loaded[k].purchase_price * loaded[k].shares])
          /\ rows[1].profit_loss = rows[1].total_value - rows[1].total_invested
          /\ n = 0 => /\ rows[1].total_value = 0
                      /\ rows[1].total_invested = 0
                      /\ rows[1].profit_loss = 0
                      /\ snapshots' = snapshots

C1_SnapshotRunWrites == [][C1_Step]_vars

\* a run over two holdings has just committed, with a non-zero total
C1_Witness ==
    /\ call.op = "snapshot_run" /\ ~call.failed /\ call.added = 2
    /\ history[Len(history)].total_value > 0
    /\ history[Len(history)].total_invested > 0

----------------------------------------------------------------------------
\* C2: create holding is rejected with status 400 and leaves the stored
\* holdings unchanged when the price lookup returns 0; otherwise it adds
\* exactly one new holding, carrying the submitted ticker, shares and
\* purchase price.
C2_Step ==
    call'.op = "create_holding" =>
      IF call'.price = 0
      THEN resp'.status = 400 /\ holdings' = holdings
      ELSE /\ resp'.status = 200
           /\ \E h \in holdings' :
                /\ h \notin holdings
                /\ h.id \notin Ids(holdings)
                /\ holdings' = holdings \cup {h}
                /\ h.ticker = call'.body.ticker
                /\ h.shares = call'.body.shares
                /\ h.purchase_price = call'.body.purchase_price

C2_CreateHolding == [][C2_Step]_vars

\* a create was rejected while a holding created earlier is stored
C2_Witness ==
    /\ call.op = "create_holding" /\ call.price = 0 /\ resp.status = 400
    /\ holdings # {}

----------------------------------------------------------------------------
\* C3: delete holding answers 404 and changes no stored row when the id is
\* not stored; for a stored id it removes exactly that holding, and a listing
\* shows exactly the holdings stored when it is made (so a deleted holding is
\* omitted and all others remain listed).
C3_Step ==
    /\ call'.op = "delete_holding" =>
         IF call'.holding_id \notin Ids(holdings)
         THEN /\ resp'.status = 404
              /\ UNCHANGED <<holdings, snapshots, history>>
         ELSE /\ resp'.status = 200
              /\ holdings' = {h \in holdings : h.id # call'.holding_id}
    /\ call'.op = "get_holdings" =>
         /\ resp'.status = 200
         /\ Len(resp'.body) = Cardinality(holdings')
         /\ {[id |-> r.id, ticker |-> r.ticker, shares |-> r.shares,
              purchase_price |-> r.purchase_price, created_at |-> r.created_at] :
                r \in {resp'.body[i] : i \in DOMAIN resp'.body}} = holdings'

C3_DeleteHolding == [][C3_Step]_vars

\* the first of two holdings was just deleted and the second is still stored
C3_Witness ==
    /\ call.op = "delete_holding" /\ resp.status = 200
    /\ call.holding_id = 1
    /\ Ids(holdings) = {2}

----------------------------------------------------------------------------
\* C4: the portfolio summary returns total_invested = sum of shares *
\* purchase_price, current_value = sum of shares * current price,
\* holdings_count = number of holdings, profit_loss = current_value -
\* total_invested, and profit_loss_percent = profit_loss / total_invested * 100
\* when total_invested > 0 and exactly 0 when total_invested = 0.
C4_PortfolioSummary ==
    resp.op = "get_portfolio_summary" =>
      LET rows == AllHoldings(holdings)
          n == Len(rows)
          invested == Sigma([i \in 1..n |-> rows[i].shares * rows[i].purchase_price])
          value == Sigma([i \in 1..n |-> rows[i].shares * call.prices[i]])
          b == resp.body
      IN  /\ n = Cardinality(holdings)
          /\ b.total_invested = invested
          /\ b.current_value = value
          /\ b.holdings_count = Cardinality(holdings)
          /\ b.profit_loss = value - invested
          /\ b.profit_loss_percent.den > 0
          /\ invested > 0 =>
               b.profit_loss_percent.num * invested =
                 (value - invested) * 100 * b.profit_loss_percent.den
          /\ invested = 0 => b.profit_loss_percent = [num |-> 0, den |-> 1]

\* nothing invested, yet a non-zero current value: the percentage is 0
C4_Witness ==
    /\ resp.op = "get_portfolio_summary"
    /\ resp.body.holdings_count > 0
    /\ resp.body.total_invested = 0
    /\ resp.body.current_value > 0
    /\ resp.body.profit_loss_percent = [num |-> 0, den |-> 1]

----------------------------------------------------------------------------
\* C5: the portfolio history query returns exactly the stored rows whose date
\* is within the last 30 days of the query, in ascending order of date; a row
\* older than 30 days is never returned.
C5_PortfolioHistory ==
    resp.op = "get_portfolio_history" =>
      LET recent == {i \in DOMAIN history :
                       history[i].date + ThirtyDays * HoursPerDay >= now}
          shown(i) == [date |-> history[i].date \div HoursPerDay,
                       profit_loss |-> history[i].profit_loss]
          b == resp.body
      IN  /\ Len(b) = Cardinality(recent)
          /\ \A i \in recent :
               Cardinality({j \in DOMAIN b : b[j] = shown(i)}) =
               Cardinality({k \in recent : shown(k) = shown(i)})
          /\ \A j \in DOMAIN b : \E i \in recent : b[j] = shown(i)
          /\ \A j \in 1..(Len(b) - 1) : b[j].date <= b[j + 1].date

\* a query that returned one row and left out another, older than 30 days
C5_Witness ==
    /\ resp.op = "get_portfolio_history"
    /\ Len(history) = 2
    /\ history[1].date + ThirtyDays * HoursPerDay < now
    /\ Len(resp.body) = 1
    /\ resp.body[1].date = history[2].date \div HoursPerDay

----------------------------------------------------------------------------
\* C6 (as claimed): PriceSnapshot rows are created only by the snapshot job,
\* no field of a written row ever changes, and a row is removed only by the
\* deletion of the holding it belongs to.
C6_Step ==
    /\ Len(snapshots') > Len(snapshots) => RunCompleted
    /\ \A i \in DOMAIN snapshots :
         \/ i \in DOMAIN snapshots' /\ snapshots'[i] = snapshots[i]
         \/ /\ Len(snapshots') < Len(snapshots)
            /\ call'.op = "delete_holding"
            /\ call'.holding_id = snapshots[i].holding_id

C6_SnapshotsImmutable == [][C6_Step]_vars

----------------------------------------------------------------------------
\* C7 (as claimed): a snapshot run that fails while invoked through the manual
\* trigger is answered with an HTTP error response.
C7_ManualFailureSurfaces ==
    (call.op = "snapshot_run" /\ call.trigger = "manual" /\ call.failed)
      => (resp.op = "trigger_snapshot" /\ resp.status >= 400)

----------------------------------------------------------------------------
\* C8 (as claimed): when an exception ends a run that had added PriceSnapshot
\* rows, those rows remain persisted, with no PortfolioHistory row.
C8_PartialWritesPersist ==
    [][(RunFailed /\ call'.added > 0) =>
         /\ snapshots' = snapshots \o job.pending
         /\ history' = history]_vars

\* C8 (amended): when an exception ends a run before its commit, none of the
\* PriceSnapshot rows it added is persisted and no PortfolioHistory row is
\* written: the tables are as they were.
C8_FailedRunWritesNothing ==
    [][RunFailed => (snapshots' = snapshots /\ history' = history)]_vars

\* a run has just failed after adding a snapshot to its session
C8_Witness ==
    /\ call.op = "snapshot_run" /\ call.failed /\ call.added > 0
    /\ snapshots = <<>> /\ history = <<>>

----------------------------------------------------------------------------
\* C9: scheduled and manual runs are not deduplicated: every completed run
\* writes its own PortfolioHistory row, dated now, also when the table already
\* holds a row of the same day, so two runs of one day leave two rows of it.
C9_Step ==
    RunCompleted =>
      /\ Len(history') = Len(history) + 1
      /\ history'[Len(history')].date = now
      /\ RowsOfDay(history', now \div HoursPerDay) =
           RowsOfDay(history, now \div HoursPerDay) + 1

C9_NoDeduplication == [][C9_Step]_vars

\* a scheduled and a manual run of the same day each left a row
C9_Witness ==
    \E i, j \in DOMAIN history :
      /\ origin[i] = "scheduled" /\ origin[j] = "manual"
      /\ history[i].date \div HoursPerDay = history[j].date \div HoursPerDay

----------------------------------------------------------------------------
\* C10 (as claimed): a 0.0 price is a lookup failure everywhere: it is never
\* persisted in a PriceSnapshot row, nor used as a price in a total_value or
\* current_value figure.
C10_ZeroPriceNeverUsed ==
    /\ \A i \in DOMAIN snapshots : snapshots[i].price # 0
    /\ resp.op = "get_holdings" =>
         \A i \in DOMAIN resp.body : resp.body[i].current_price # 0
    /\ resp.op = "get_portfolio_summary" =>
         \A i \in DOMAIN call.prices : call.prices[i] # 0

====
